---- MODULE Spec2Model ----
(***************************************************************************)
(* Smith-Waterman local (overlap) alignment of sv_pipeline:                *)
(* src/sv_pipeline/old_smith_waterman.py.                                  *)
(*                                                                         *)
(* A Python string or list is a TLA+ sequence of its elements; the Python  *)
(* index k names element k + 1 of the sequence, and a negative index wraps *)
(* round from the end as Python's does (PyAt).                             *)
(***************************************************************************)
EXTENDS Integers, Sequences, FiniteSets, TLC

\* ------------------------------------------------------------------ bounds
MaxLen == 3
MaxAligned == 3
MaxPairs == 2

Alphabet == {"A", "G", "T"}
RenderAlphabet == {"A", "C", "-"}
ReadIds == {"r0", "r1"}

Strings(S, n) == UNION {[1..k -> S] : k \in 0..n}

\* --------------------------------------------------------- Python helpers
None == <<>>

PyInRange(s, k) == -Len(s) <= k /\ k < Len(s)

PyAt(s, k) == s[(IF k < 0 THEN k + Len(s) ELSE k) + 1]

max(S) == CHOOSE v \in S : \A w \in S : w <= v

RECURSIVE reversed(_)
reversed(s) == IF s = <<>> THEN <<>> ELSE Append(reversed(Tail(s)), Head(s))

\* ------------------------------------------------- _create_score_matrix
match == 2
mismatch == -1
gap == -1

calc_score_NoFloor(matrix, x, y, s1, s2) ==
    LET similarity == IF PyAt(s1, x - 1) = PyAt(s2, y - 1) THEN match ELSE mismatch
        diag_score == PyAt(PyAt(matrix, x - 1), y - 1) + similarity
        up_score   == PyAt(PyAt(matrix, x - 1), y) + gap
        left_score == PyAt(PyAt(matrix, x), y - 1) + gap
    IN  max({diag_score, up_score, left_score})

calc_score(matrix, x, y, s1, s2) ==
    LET similarity == IF PyAt(s1, x - 1) = PyAt(s2, y - 1) THEN match ELSE mismatch
        diag_score == PyAt(PyAt(matrix, x - 1), y - 1) + similarity
        up_score   == PyAt(PyAt(matrix, x - 1), y) + gap
        left_score == PyAt(PyAt(matrix, x), y - 1) + gap
    IN  max({0, diag_score, up_score, left_score})

ZeroMatrix(rows, cols) == [i \in 1..rows |-> [j \in 1..cols |-> 0]]

IsNewMax_TieMoves(sc, max_score) == sc >= max_score

IsNewMax(sc, max_score) == sc > max_score

\* One pass of the inner loop body, for the cell (i, j).
FillCell(st, i, j, s1, s2) ==
    LET sc == calc_score(st.score_matrix, i, j, s1, s2)
        better == IsNewMax(sc, st.max_score)
    IN  [score_matrix |-> [st.score_matrix EXCEPT ![i + 1][j + 1] = sc],
         max_score    |-> IF better THEN sc ELSE st.max_score,
         max_pos      |-> IF better THEN <<i, j>> ELSE st.max_pos]

\* The two nested loops, for i in range(1, rows): for j in range(1, cols),
\* from the k-th cell of the scan on.
RECURSIVE FillLoop(_, _, _, _, _, _)
FillLoop(st, k, rows, cols, s1, s2) ==
    IF k >= (rows - 1) * (cols - 1) THEN st
    ELSE FillLoop(FillCell(st, 1 + (k \div (cols - 1)), 1 + (k % (cols - 1)), s1, s2),
                  k + 1, rows, cols, s1, s2)

\* The matrix and max_pos at the function's last two lines; outcome is
\* "AssertionError" when the assertion on max_pos fails.
_create_score_matrix(rows, cols, s1, s2) ==
    LET st == FillLoop([score_matrix |-> ZeroMatrix(rows, cols),
                        max_score |-> 0, max_pos |-> None], 0, rows, cols, s1, s2)
    IN  [outcome      |-> IF st.max_pos = None THEN "AssertionError" ELSE "ok",
         score_matrix |-> st.score_matrix,
         max_pos      |-> st.max_pos]

\* ------------------------------------------------------------ _traceback
END == "END"
DIAG == "DIAG"
UP == "UP"
LEFT == "LEFT"
ValueError == "ValueError"
IndexError == "IndexError"
AssertionError == "AssertionError"
KeyError == "KeyError"

_next_move_StrictDiag(matrix, x, y) ==
    IF ~(PyInRange(matrix, x - 1) /\ PyInRange(matrix, x)
         /\ PyInRange(matrix[1], y - 1) /\ PyInRange(matrix[1], y))
    THEN IndexError
    ELSE LET diag == PyAt(PyAt(matrix, x - 1), y - 1)
             up   == PyAt(PyAt(matrix, x - 1), y)
             left == PyAt(PyAt(matrix, x), y - 1)
         IN  IF diag > up /\ diag > left
             THEN (IF diag # 0 THEN DIAG ELSE END)
             ELSE IF up > diag /\ up >= left
             THEN (IF up # 0 THEN UP ELSE END)
             ELSE IF left > diag /\ left > up
             THEN (IF left # 0 THEN LEFT ELSE END)
             ELSE ValueError

_next_move_UpStrict(matrix, x, y) ==
    IF ~(PyInRange(matrix, x - 1) /\ PyInRange(matrix, x)
         /\ PyInRange(matrix[1], y - 1) /\ PyInRange(matrix[1], y))
    THEN IndexError
    ELSE LET diag == PyAt(PyAt(matrix, x - 1), y - 1)
             up   == PyAt(PyAt(matrix, x - 1), y)
             left == PyAt(PyAt(matrix, x), y - 1)
         IN  IF diag >= up /\ diag >= left
             THEN (IF diag # 0 THEN DIAG ELSE END)
             ELSE IF up > diag /\ up > left
             THEN (IF up # 0 THEN UP ELSE END)
             ELSE IF left > diag /\ left > up
             THEN (IF left # 0 THEN LEFT ELSE END)
             ELSE ValueError

_next_move_NoEnd(matrix, x, y) ==
    IF ~(PyInRange(matrix, x - 1) /\ PyInRange(matrix, x)
         /\ PyInRange(matrix[1], y - 1) /\ PyInRange(matrix[1], y))
    THEN IndexError
    ELSE LET diag == PyAt(PyAt(matrix, x - 1), y - 1)
             up   == PyAt(PyAt(matrix, x - 1), y)
             left == PyAt(PyAt(matrix, x), y - 1)
         IN  IF diag >= up /\ diag >= left
             THEN DIAG
             ELSE IF up > diag /\ up >= left
             THEN (IF up # 0 THEN UP ELSE END)
             ELSE IF left > diag /\ left > up
             THEN (IF left # 0 THEN LEFT ELSE END)
             ELSE ValueError

_next_move(matrix, x, y) ==
    IF ~(PyInRange(matrix, x - 1) /\ PyInRange(matrix, x)
         /\ PyInRange(matrix[1], y - 1) /\ PyInRange(matrix[1], y))
    THEN IndexError
    ELSE LET diag == PyAt(PyAt(matrix, x - 1), y - 1)
             up   == PyAt(PyAt(matrix, x - 1), y)
             left == PyAt(PyAt(matrix, x), y - 1)
         IN  IF diag >= up /\ diag >= left
             THEN (IF diag # 0 THEN DIAG ELSE END)
             ELSE IF up > diag /\ up >= left
             THEN (IF up # 0 THEN UP ELSE END)
             ELSE IF left > diag /\ left > up
             THEN (IF left # 0 THEN LEFT ELSE END)
             ELSE ValueError

\* The traceback's locals: tb = [x, y, move, aligned_seq1, aligned_seq2].
MoveDiag(tb, s1, s2) ==
    IF ~(PyInRange(s1, tb.x - 1) /\ PyInRange(s2, tb.y - 1))
    THEN [tb EXCEPT !.move = IndexError]
    ELSE [tb EXCEPT !.aligned_seq1 = Append(@, PyAt(s1, tb.x - 1)),
                    !.aligned_seq2 = Append(@, PyAt(s2, tb.y - 1)),
                    !.x = @ - 1,
                    !.y = @ - 1]

MoveUp_NoGap(tb, s1, s2) ==
    IF ~PyInRange(s1, tb.x - 1)
    THEN [tb EXCEPT !.move = IndexError]
    ELSE [tb EXCEPT !.aligned_seq1 = Append(@, PyAt(s1, tb.x - 1)),
                    !.x = @ - 1]

MoveUp(tb, s1, s2) ==
    IF ~PyInRange(s1, tb.x - 1)
    THEN [tb EXCEPT !.move = IndexError]
    ELSE [tb EXCEPT !.aligned_seq1 = Append(@, PyAt(s1, tb.x - 1)),
                    !.aligned_seq2 = Append(@, "-"),
                    !.x = @ - 1]

MoveLeft(tb, s1, s2) ==
    IF ~PyInRange(s2, tb.y - 1)
    THEN [tb EXCEPT !.move = IndexError]
    ELSE [tb EXCEPT !.aligned_seq1 = Append(@, "-"),
                    !.aligned_seq2 = Append(@, PyAt(s2, tb.y - 1)),
                    !.y = @ - 1]

\* One pass of the while loop: the branch of tb.move, then the next move.
LoopBody(matrix, s1, s2, tb) ==
    LET moved == IF tb.move = DIAG THEN MoveDiag(tb, s1, s2)
                 ELSE IF tb.move = UP THEN MoveUp(tb, s1, s2)
                 ELSE MoveLeft(tb, s1, s2)
    IN  IF moved.move = IndexError THEN moved
        ELSE [moved EXCEPT !.move = _next_move(matrix, moved.x, moved.y)]

TracebackStart(matrix, start_pos, s1, s2) ==
    [x |-> start_pos[1], y |-> start_pos[2],
     aligned_seq1 |-> <<>>, aligned_seq2 |-> <<>>,
     move |-> _next_move(matrix, start_pos[1], start_pos[2])]

\* After the loop: the last pair is appended and both lists are reversed.
TracebackReturn(tb, s1, s2) ==
    IF ~(PyInRange(s1, tb.x - 1) /\ PyInRange(s2, tb.y - 1))
    THEN [outcome |-> IndexError, ret |-> <<<<>>, <<>>>>]
    ELSE [outcome |-> "ok",
          ret |-> <<reversed(Append(tb.aligned_seq1, PyAt(s1, tb.x - 1))),
                    reversed(Append(tb.aligned_seq2, PyAt(s2, tb.y - 1)))>>]

RECURSIVE TracebackLoop(_, _, _, _)
TracebackLoop(matrix, s1, s2, tb) ==
    IF tb.move \in {DIAG, UP, LEFT}
    THEN TracebackLoop(matrix, s1, s2, LoopBody(matrix, s1, s2, tb))
    ELSE tb

_traceback(matrix, start_pos, s1, s2) ==
    LET tb == TracebackLoop(matrix, s1, s2, TracebackStart(matrix, start_pos, s1, s2))
    IN  IF tb.move = END THEN TracebackReturn(tb, s1, s2)
        ELSE [outcome |-> tb.move, ret |-> <<<<>>, <<>>>>]

\* ----------------------------------------------------------------- align
align(s1, s2) ==
    LET rows == Len(s1) + 1
        cols == Len(s2) + 1
        created == _create_score_matrix(rows, cols, s1, s2)
        failed(why) == [outcome |-> why, seq1_aligned |-> <<>>,
                        seq2_aligned |-> <<>>, score |-> 0]
    IN  IF created.outcome # "ok" THEN failed(created.outcome)
        ELSE LET sc == PyAt(PyAt(created.score_matrix, created.max_pos[1]),
                            created.max_pos[2])
                 tr == _traceback(created.score_matrix, created.max_pos, s1, s2)
             IN  IF tr.outcome # "ok" THEN failed(tr.outcome)
                 ELSE IF Len(tr.ret[1]) # Len(tr.ret[2]) THEN failed(AssertionError)
                 ELSE [outcome |-> "ok", seq1_aligned |-> tr.ret[1],
                       seq2_aligned |-> tr.ret[2], score |-> sc]

\* ------------------------------------------------------------- the state
VARIABLES
    pc,                 \* where the running call is
    seq1, seq2,         \* align's arguments
    score_matrix,       \* _create_score_matrix and align: score_matrix
    i, j,               \* _create_score_matrix: the cell the loops are at
    max_score, max_pos, \* _create_score_matrix's locals
    start_pos,          \* align: start_pos
    score,              \* align: score
    x, y, move,         \* _traceback's locals
    aligned_seq1, aligned_seq2,
    moves,              \* passes of _traceback's while loop so far
    seq1_aligned, seq2_aligned,   \* align's result; _print_alignment's arguments
    alignment_string, idents, gaps, mismatches,   \* _alignment_string's locals
    pos,                \* pairs _alignment_string's zip has yielded so far
    read_pairs, fasta_dict,       \* get_alignment_scores: argument, _fasta_dict's result
    score_dict,         \* get_alignment_scores: score_dict
    done_pairs,         \* passes of get_alignment_scores' for loop so far
    align_calls         \* the pairs align has been called on, in order

fillVars == <<score_matrix, i, j, max_score, max_pos>>
tracebackVars == <<start_pos, score, x, y, move, aligned_seq1, aligned_seq2, moves>>
alignVars == <<seq1, seq2, fillVars, tracebackVars>>
resultVars == <<seq1_aligned, seq2_aligned>>
renderVars == <<alignment_string, idents, gaps, mismatches, pos>>
batchVars == <<read_pairs, fasta_dict, score_dict, done_pairs, align_calls>>
vars == <<pc, alignVars, resultVars, renderVars, batchVars>>

TracebackIdle ==
    /\ start_pos = None /\ score = 0
    /\ x = 0 /\ y = 0 /\ move = END
    /\ aligned_seq1 = <<>> /\ aligned_seq2 = <<>> /\ moves = 0

AlignIdle ==
    /\ seq1 = <<>> /\ seq2 = <<>>
    /\ score_matrix = <<>> /\ i = 0 /\ j = 0
    /\ max_score = 0 /\ max_pos = None
    /\ TracebackIdle

RenderIdle ==
    /\ alignment_string = <<>> /\ idents = 0 /\ gaps = 0 /\ mismatches = 0
    /\ pos = 0

BatchIdle ==
    /\ read_pairs = <<>> /\ fasta_dict = <<>> /\ score_dict = <<>>
    /\ done_pairs = 0 /\ align_calls = <<>>

\* ------------------------------------------------------- align, by steps
\* ScoreMatrixTest.test_matrix's sequences.
TestSeq1 == <<"A", "G", "C", "A", "C", "A", "C", "A">>
TestSeq2 == <<"A", "C", "A", "C", "A", "C", "T", "A">>

\* align has called _create_score_matrix, which is about to enter its loops.
Init ==
    /\ pc = "fill"
    /\ \/ /\ seq1 \in Strings(Alphabet, MaxLen)
          /\ seq2 \in Strings(Alphabet, MaxLen)
       \/ /\ seq1 = TestSeq1
          /\ seq2 = TestSeq2
    /\ score_matrix = ZeroMatrix(Len(seq1) + 1, Len(seq2) + 1)
    /\ i = 1 /\ j = 1
    /\ max_score = 0 /\ max_pos = None
    /\ TracebackIdle
    /\ seq1_aligned = <<>> /\ seq2_aligned = <<>>
    /\ RenderIdle
    /\ BatchIdle

LoopsDone == i >= Len(seq1) + 1 \/ Len(seq2) + 1 <= 1

\* One pass of the inner loop of _create_score_matrix, for the cell (i, j).
FillNextCell ==
    /\ pc = "fill"
    /\ ~LoopsDone
    /\ LET st == FillCell([score_matrix |-> score_matrix, max_score |-> max_score,
                           max_pos |-> max_pos], i, j, seq1, seq2)
       IN  /\ score_matrix' = st.score_matrix
           /\ max_score' = st.max_score
           /\ max_pos' = st.max_pos
    /\ IF j + 1 < Len(seq2) + 1
       THEN i' = i /\ j' = j + 1
       ELSE i' = i + 1 /\ j' = 1
    /\ UNCHANGED <<pc, seq1, seq2, tracebackVars, resultVars, renderVars, batchVars>>

\* The loops are over: _create_score_matrix asserts and returns; align sets
\* x, y and score and calls _traceback, which runs up to its loop.
StartTraceback ==
    /\ pc = "fill"
    /\ LoopsDone
    /\ IF max_pos = None
       THEN /\ pc' = AssertionError
            /\ UNCHANGED tracebackVars
       ELSE LET tb == TracebackStart(score_matrix, max_pos, seq1, seq2)
            IN  /\ start_pos' = max_pos
                /\ score' = PyAt(PyAt(score_matrix, max_pos[1]), max_pos[2])
                /\ x' = tb.x /\ y' = tb.y /\ move' = tb.move
                /\ aligned_seq1' = tb.aligned_seq1
                /\ aligned_seq2' = tb.aligned_seq2
                /\ moves' = 0
                /\ pc' = IF tb.move \in {ValueError, IndexError} THEN tb.move
                         ELSE "traceback"
    /\ UNCHANGED <<seq1, seq2, fillVars, resultVars, renderVars, batchVars>>

\* One pass of _traceback's while loop.
TracebackPass ==
    /\ pc = "traceback"
    /\ LET tb == LoopBody(score_matrix, seq1, seq2,
                          [x |-> x, y |-> y, move |-> move,
                           aligned_seq1 |-> aligned_seq1,
                           aligned_seq2 |-> aligned_seq2])
       IN  /\ x' = tb.x /\ y' = tb.y /\ move' = tb.move
           /\ aligned_seq1' = tb.aligned_seq1
           /\ aligned_seq2' = tb.aligned_seq2
           /\ pc' = IF tb.move \in {ValueError, IndexError} THEN tb.move ELSE "traceback"
    /\ moves' = moves + 1
    /\ UNCHANGED <<seq1, seq2, fillVars, start_pos, score,
                   resultVars, renderVars, batchVars>>

TracebackDiag ==
    /\ move = DIAG
    /\ TracebackPass

TracebackUp ==
    /\ move = UP
    /\ TracebackPass

TracebackLeft ==
    /\ move = LEFT
    /\ TracebackPass

\* The loop has ended: _traceback returns and align asserts and returns.
FinishAlign ==
    /\ pc = "traceback"
    /\ move = END
    /\ LET tr == TracebackReturn([x |-> x, y |-> y, move |-> move,
                                  aligned_seq1 |-> aligned_seq1,
                                  aligned_seq2 |-> aligned_seq2], seq1, seq2)
       IN  /\ seq1_aligned' = tr.ret[1]
           /\ seq2_aligned' = tr.ret[2]
           /\ pc' = IF tr.outcome # "ok" THEN tr.outcome
                    ELSE IF Len(tr.ret[1]) # Len(tr.ret[2]) THEN AssertionError
                    ELSE "done"
    /\ UNCHANGED <<alignVars, renderVars, batchVars>>

Next ==
    \/ FillNextCell
    \/ StartTraceback
    \/ TracebackDiag
    \/ TracebackUp
    \/ TracebackLeft
    \/ FinishAlign

Spec == Init /\ [][Next]_vars

\* ------------------------------------------------------ _alignment_string
\* The loop body, on the locals st = [alignment_string, idents, gaps,
\* mismatches] and the pair (base1, base2).
MarkPair_GapUncounted(st, base1, base2) ==
    IF base1 = base2
    THEN [st EXCEPT !.alignment_string = Append(@, "|"), !.idents = @ + 1]
    ELSE IF "-" \in {base1, base2}
    THEN [st EXCEPT !.alignment_string = Append(@, " ")]
    ELSE [st EXCEPT !.alignment_string = Append(@, ":"), !.mismatches = @ + 1]

MarkPair(st, base1, base2) ==
    IF base1 = base2
    THEN [st EXCEPT !.alignment_string = Append(@, "|"), !.idents = @ + 1]
    ELSE IF "-" \in {base1, base2}
    THEN [st EXCEPT !.alignment_string = Append(@, " "), !.gaps = @ + 1]
    ELSE [st EXCEPT !.alignment_string = Append(@, ":"), !.mismatches = @ + 1]

Min(a, b) == IF a <= b THEN a ELSE b

InitRender ==
    /\ pc = "render"
    /\ \E n \in 0..MaxAligned :
          /\ seq1_aligned \in [1..n -> RenderAlphabet]
          /\ seq2_aligned \in [1..n -> RenderAlphabet]
    /\ AlignIdle
    /\ RenderIdle
    /\ BatchIdle

\* One pass of the loop over zip(aligned_seq1, aligned_seq2).
MarkNextPair ==
    /\ pc = "render"
    /\ pos < Min(Len(seq1_aligned), Len(seq2_aligned))
    /\ LET st == MarkPair([alignment_string |-> alignment_string, idents |-> idents,
                           gaps |-> gaps, mismatches |-> mismatches],
                          seq1_aligned[pos + 1], seq2_aligned[pos + 1])
       IN  /\ alignment_string' = st.alignment_string
           /\ idents' = st.idents
           /\ gaps' = st.gaps
           /\ mismatches' = st.mismatches
    /\ pos' = pos + 1
    /\ UNCHANGED <<pc, alignVars, resultVars, batchVars>>

\* zip is exhausted: the joined string and the three counts are returned.
ReturnAlignmentString ==
    /\ pc = "render"
    /\ pos >= Min(Len(seq1_aligned), Len(seq2_aligned))
    /\ pc' = "rendered"
    /\ UNCHANGED <<alignVars, resultVars, renderVars, batchVars>>

NextRender ==
    \/ MarkNextPair
    \/ ReturnAlignmentString

SpecRender == InitRender /\ [][NextRender]_vars

\* --------------------------------------------------- get_alignment_scores
BatchSeqs == {<<"A">>, <<"G">>, <<"A", "A">>}

InitBatch ==
    /\ pc = "batch"
    /\ read_pairs \in Strings(ReadIds \X ReadIds, MaxPairs)
    /\ fasta_dict \in UNION {[D -> BatchSeqs] : D \in SUBSET ReadIds}
    /\ score_dict = <<>>
    /\ done_pairs = 0
    /\ align_calls = <<>>
    /\ AlignIdle
    /\ seq1_aligned = <<>> /\ seq2_aligned = <<>>
    /\ RenderIdle

\* score_dict[(read0, read1)] = score
SetItem(d, key, value) ==
    [k \in DOMAIN d \cup {key} |-> IF k = key THEN value ELSE d[k]]

\* One pass of the for loop over read_pairs.
ScorePair ==
    /\ pc = "batch"
    /\ done_pairs < Len(read_pairs)
    /\ LET read0 == read_pairs[done_pairs + 1][1]
           read1 == read_pairs[done_pairs + 1][2]
       IN  IF read0 \notin DOMAIN fasta_dict \/ read1 \notin DOMAIN fasta_dict
           THEN /\ pc' = KeyError
                /\ UNCHANGED <<score_dict, done_pairs, align_calls>>
           ELSE LET res == align(fasta_dict[read0], fasta_dict[read1])
                IN  /\ align_calls' = Append(align_calls, <<read0, read1>>)
                    /\ IF res.outcome = "ok"
                       THEN /\ score_dict' = SetItem(score_dict, <<read0, read1>>, res.score)
                            /\ done_pairs' = done_pairs + 1
                            /\ pc' = pc
                       ELSE /\ pc' = res.outcome
                            /\ UNCHANGED <<score_dict, done_pairs>>
    /\ UNCHANGED <<read_pairs, fasta_dict, alignVars, resultVars, renderVars>>

\* return score_dict
ReturnScores ==
    /\ pc = "batch"
    /\ done_pairs >= Len(read_pairs)
    /\ pc' = "returned"
    /\ UNCHANGED <<alignVars, resultVars, renderVars, batchVars>>

NextBatch ==
    \/ ScorePair
    \/ ReturnScores

SpecBatch == InitBatch /\ [][NextBatch]_vars

\* ---------------------------------------------------------------- claims
\* ScoreMatrixTest.test_matrix's known_matrix.
known_matrix ==
    << <<0, 0, 0, 0, 0, 0, 0, 0, 0>>,
       <<0, 2, 1, 2, 1, 2, 1, 0, 2>>,
       <<0, 1, 1, 1, 1, 1, 1, 0, 1>>,
       <<0, 0, 3, 2, 3, 2, 3, 2, 1>>,
       <<0, 2, 2, 5, 4, 5, 4, 3, 4>>,
       <<0, 1, 4, 4, 7, 6, 7, 6, 5>>,
       <<0, 2, 3, 6, 6, 9, 8, 7, 8>>,
       <<0, 1, 4, 5, 8, 8, 11, 10, 9>>,
       <<0, 2, 3, 6, 7, 10, 10, 10, 12>> >>

Cell(r, c) == score_matrix[r + 1][c + 1]

Cells == {Cell(r, c) : r \in 0..Len(seq1), c \in 0..Len(seq2)}

Returned == pc \in {"traceback", "done"}

\* C1: the matrix _create_score_matrix builds for seq1 (length m) and seq2
\* (length n) has m+1 rows of n+1 cells, row 0 and column 0 are zero, every
\* other cell is max(0, diag + s, up - 1, left - 1) with s = 2 on equal
\* symbols and -1 otherwise, so no cell is negative; for 'AGCACACA' and
\* 'ACACACTA' it is the test's known matrix, whose maximum is 12.
C1_ScoreMatrix ==
    pc # "fill" =>
        LET m == Len(seq1)
            n == Len(seq2)
        IN  /\ Len(score_matrix) = m + 1
            /\ \A r \in 1..(m + 1) : Len(score_matrix[r]) = n + 1
            /\ \A c \in 0..n : Cell(0, c) = 0
            /\ \A r \in 0..m : Cell(r, 0) = 0
            /\ \A r \in 1..m : \A c \in 1..n :
                  LET s == IF seq1[r] = seq2[c] THEN 2 ELSE -1
                  IN  Cell(r, c) = max({0, Cell(r - 1, c - 1) + s,
                                        Cell(r - 1, c) - 1, Cell(r, c - 1) - 1})
            /\ \A v \in Cells : v >= 0
            /\ (seq1 = TestSeq1 /\ seq2 = TestSeq2) =>
                  /\ score_matrix = known_matrix
                  /\ max(Cells) = 12

C1_Witness ==
    /\ pc = "traceback"
    /\ seq1 = TestSeq1 /\ seq2 = TestSeq2
    /\ Cell(8, 8) = 12

\* C2: the endpoint _create_score_matrix returns is the first cell, in
\* row-major order, that holds the maximum of the matrix: no cell is larger,
\* no earlier cell is equal, and align's score is the endpoint's value.
C2_EndpointFirstMaximum ==
    Returned =>
        LET ex == start_pos[1]
            ey == start_pos[2]
        IN  /\ ex \in 1..Len(seq1) /\ ey \in 1..Len(seq2)
            /\ \A v \in Cells : v <= Cell(ex, ey)
            /\ \A r \in 0..Len(seq1) : \A c \in 0..Len(seq2) :
                  (r < ex \/ (r = ex /\ c < ey)) => Cell(r, c) < Cell(ex, ey)
            /\ score = Cell(ex, ey)
            /\ score = max(Cells)

C2_Witness ==
    /\ pc = "done"
    /\ \E r \in 0..Len(seq1) : \E c \in 0..Len(seq2) :
          /\ <<r, c>> # start_pos
          /\ Cell(r, c) = score

RECURSIVE ColumnScore(_, _)
ColumnScore(a, b) ==
    IF a = <<>> \/ b = <<>> THEN 0
    ELSE (IF Head(a) = "-" \/ Head(b) = "-" THEN -1
          ELSE IF Head(a) = Head(b) THEN 2 ELSE -1)
         + ColumnScore(Tail(a), Tail(b))

\* C3: the aligned pair align returns scores, column by column (+2 for two
\* equal symbols, -1 for two different ones, -1 for a column with a gap),
\* exactly the score align returns.
C3_AlignedPairHasReportedScore ==
    pc = "done" => ColumnScore(seq1_aligned, seq2_aligned) = score

\* C4: the two aligned sequences have the same length: every pass of the
\* traceback loop and the append after it add one element to each list, and
\* align's assertion on the two lengths never fails.
C4_EqualLengths ==
    /\ pc = "traceback" =>
          Len(aligned_seq1) = moves /\ Len(aligned_seq2) = moves
    /\ pc = "done" =>
          Len(seq1_aligned) = moves + 1 /\ Len(seq2_aligned) = moves + 1
    /\ pc = AssertionError => max_pos = None

C4_Witness ==
    /\ pc = "done"
    /\ \E r \in 1..Len(seq1_aligned) : seq1_aligned[r] = "-"
    /\ \E r \in 1..Len(seq2_aligned) : seq2_aligned[r] = "-"

\* C5: align(s, s) for a non-empty s never fails and returns s twice, with
\* no gap, and the score 2 * len(s).
C5_Identity ==
    (seq1 = seq2 /\ seq1 # <<>>) =>
        /\ pc \in {"fill", "traceback", "done"}
        /\ pc = "done" =>
              /\ seq1_aligned = seq1
              /\ seq2_aligned = seq1
              /\ score = 2 * Len(seq1)

C5_Witness ==
    /\ pc = "done"
    /\ seq1 = seq2
    /\ Len(seq1) >= 3
    /\ seq1[1] = seq1[2] /\ seq1[2] = seq1[3]

NoAlignmentFound == "NoAlignmentFound"

\* C6: when the matrix is all zero (a sequence is empty, or the two share no
\* symbol) align ends in the NoAlignmentFound outcome, not in a crash.
C6_NoAlignmentFound ==
    (pc # "fill" /\ \A v \in Cells : v = 0) => pc = NoAlignmentFound

Pairs(n) == {read_pairs[r] : r \in 1..n}

Resolves(p) == p[1] \in DOMAIN fasta_dict /\ p[2] \in DOMAIN fasta_dict

MaxOfMatrix(p) ==
    LET s1 == fasta_dict[p[1]]
        s2 == fasta_dict[p[2]]
        m == _create_score_matrix(Len(s1) + 1, Len(s2) + 1, s1, s2).score_matrix
    IN  max({m[r][c] : r \in 1..(Len(s1) + 1), c \in 1..(Len(s2) + 1)})

\* C7: get_alignment_scores takes the pairs in order; with an unresolved
\* identifier it ends in the lookup failure at the first such pair, having
\* aligned no later pair and returning no map; with every identifier
\* resolved it returns the map whose keys are exactly the input pairs, each
\* with the maximum of its matrix.
C7_BatchScoring ==
    /\ align_calls = SubSeq(read_pairs, 1, Len(align_calls))
    /\ (\E r \in 1..Len(read_pairs) : ~Resolves(read_pairs[r])) =>
          /\ pc \in {"batch", KeyError}
          /\ pc = KeyError =>
                /\ ~Resolves(read_pairs[done_pairs + 1])
                /\ \A r \in 1..done_pairs : Resolves(read_pairs[r])
                /\ Len(align_calls) = done_pairs
    /\ (\A r \in 1..Len(read_pairs) : Resolves(read_pairs[r])) =>
          /\ pc \in {"batch", "returned"}
          /\ pc = "returned" =>
                /\ DOMAIN score_dict = Pairs(Len(read_pairs))
                /\ \A p \in DOMAIN score_dict : score_dict[p] = MaxOfMatrix(p)

Count(s, c) == Cardinality({r \in 1..Len(s) : s[r] = c})

\* C8: in _alignment_string, on two aligned sequences of one length, the
\* three counts add up to the number of pairs seen and the mark string has
\* that length; every position adds to exactly one count: identities with
\* '|', gaps with ' ', mismatches with ':'.
C8_CountsPartition ==
    pc \in {"render", "rendered"} =>
        /\ idents + gaps + mismatches = pos
        /\ Len(alignment_string) = pos
        /\ idents = Count(alignment_string, "|")
        /\ gaps = Count(alignment_string, " ")
        /\ mismatches = Count(alignment_string, ":")
        /\ pc = "rendered" => pos = Len(seq1_aligned) /\ pos = Len(seq2_aligned)

C8_Witness ==
    /\ pc = "rendered"
    /\ idents > 0 /\ gaps > 0 /\ mismatches > 0

\* C9: the traceback never takes _next_move's 'invalid move' branch, every
\* pass of its loop lowers x + y, so there are at most x0 + y0 passes from
\* the endpoint (x0, y0), and the loop ends with END at a cell whose diag,
\* up and left neighbours are all zero.
C9_TracebackEnds ==
    /\ pc # ValueError
    /\ pc = "traceback" =>
          /\ move \in {END, DIAG, UP, LEFT}
          /\ x + y + moves <= start_pos[1] + start_pos[2]
          /\ moves <= start_pos[1] + start_pos[2]
    /\ ((pc = "traceback" /\ move = END) \/ pc = "done") =>
          /\ x >= 1 /\ y >= 1
          /\ Cell(x - 1, y - 1) = 0
          /\ Cell(x - 1, y) = 0
          /\ Cell(x, y - 1) = 0

C9_Witness ==
    /\ pc = "done"
    /\ moves >= 3
    /\ moves < start_pos[1] + start_pos[2]

\* C10: all through the traceback, the state with END included, x >= 1 and
\* y >= 1 and the current cell is positive; so no index is negative, and the
\* pair appended after the loop is two equal symbols.
C10_TracebackInsideMatrix ==
    /\ pc # IndexError
    /\ pc \in {"traceback", "done"} =>
          /\ x >= 1 /\ y >= 1
          /\ x <= Len(seq1) /\ y <= Len(seq2)
          /\ Cell(x, y) > 0
    /\ (pc = "traceback" /\ move = END) => seq1[x] = seq2[y]
    /\ pc = "done" =>
          /\ seq1_aligned[1] = seq1[x]
          /\ seq2_aligned[1] = seq2[y]
          /\ seq1_aligned[1] = seq2_aligned[1]

C10_Witness ==
    /\ pc = "done"
    /\ moves >= 1
    /\ x = 1 /\ y > 1

====
